---------------------------- MODULE Spec2Model ----------------------------
(***************************************************************************)
(* A model of pytf's work dispatcher (pytf/utilities/parallel.py) and of   *)
(* the index construction of the filter bank (pytf/filter/filterbank.py).  *)
(*                                                                         *)
(* The specifications share the variables:                                 *)
(*   SpecPartition  the slice loop of Parallel.__init__ (lines 85-93),     *)
(*   SpecIndices    FilterBank._get_indices_for_frequency_shifts on a      *)
(*                  bounded set of band configurations,                    *)
(*   Spec           a constructed dispatcher: one submitting thread in     *)
(*                  result(), one thread in kill(), the worker processes   *)
(*                  running Parallel.process, and workers that die,        *)
(*   LiveSpec       Spec with the fairness of the operating system's       *)
(*                  scheduler (every runnable process or thread runs),     *)
(*   ServeSpec      a multi-worker dispatcher whose workers stay alive     *)
(*                  and that is never torn down, with the same fairness,   *)
(*   SpecConstruct  FilterBank.__init__ from line 88 to the last worker    *)
(*                  started, followed by result() calls,                   *)
(*   SpecProject    the index construction followed by lines 216-218 of    *)
(*                  FilterBank._fft_procs on a window of STFT bins,        *)
(*   SpecRegistry   a dispatcher beside which another dispatcher of its    *)
(*                  class is constructed, and whose owner assigns to the   *)
(*                  FilterBank's domain attribute.                         *)
(***************************************************************************)
EXTENDS Integers, Sequences, FiniteSets, TLC

\* ------------------------------------------------------------------ bounds
\* the worker counts of a constructed dispatcher: single-worker mode
\* (nprocs <= 1, line 164) and multi-worker mode (nprocs > 1, line 154)
WorkerCounts == {1, 2}
\* largest worker count of a dispatcher that is never torn down
MaxWorkers == 3
\* length of the partitioned axis of the output of a constructed dispatcher
AxisLen == 3
\* number of result() calls in one behaviour
MaxEpochs == 2
\* number of kill() calls in one behaviour
MaxKills == 2
\* number of distinct input values a caller submits
NData == 2
\* largest axis length and worker count given to the slice loop
MaxAxis == 7
MaxProcs == 5
\* largest bandwidth (Hz) and band count given to the index construction
MaxBandwidth == 8
MaxBands == 2
\* the window sizes and the sample rate (Hz) given to the index construction
BinSizes == {8, 16, 32}
SampleRates == {16}
\* the decimation factors given to the projector
DecimateBys == {1, 2}

\* the value of in_counter that stops the workers (parallel.py line 116)
Sentinel == -1

VARIABLES
    nprocs,       \* self.nprocs
    dummy,        \* TRUE: the object is a ParallelDummy
    axis_len,     \* self.out_shape[self.axis]
    slices,       \* self.slices, a sequence of <<start, stop>>
    start_slice,  \* the local of the slice loop
    p,            \* the loop variable of the slice loop
    in_counter,   \* self.in_counter.val.value
    out_counter,  \* self.out_counter[n].val.value
    ins,          \* the shared input buffers in1..in4
    out,          \* the shared output buffer, along the partitioned axis
    wpc,          \* where each worker process is in Parallel.process
    snap,         \* the inputs a worker's projector call works on
    cpc,          \* where the submitting thread is in Parallel.result
    args,         \* the arguments of the result() call in progress
    ret,          \* what the last result() call returned, as read at return
    kpc,          \* where the tearing-down thread is in Parallel.kill
    epochs,       \* result() calls made so far
    kills,        \* kill() calls that have returned
    killed,       \* kill() has stored the sentinel at least once
    ilock,        \* who holds in_counter.lock
    itmp,         \* the value `self.val.value += 1` has read and not yet written
    ncalls,       \* projector calls each worker has started
    prev,         \* <<args, result>> of an earlier call the caller has kept
    shm,          \* the shared buffers of lines 73-83 exist
    bind,         \* the views each worker made at lines 128-142
    function,     \* Parallel.function[self.f_name] in the caller's process
    binsize,      \* FilterBank._binsize
    sample_rate,  \* FilterBank._sample_rate
    bandwidth,    \* FilterBank._bandwidth
    center_freqs, \* FilterBank._center_freqs, one per band, in units of 1/2 Hz
    built,        \* _get_indices_for_frequency_shifts has run
    idx1,         \* FilterBank._idx1, one row per band
    idx2,         \* FilterBank._idx2
    fidx,         \* FilterBank._fidx
    decimate_by,  \* FilterBank._decimate_by
    domain,       \* FilterBank.domain in the caller's process
    mprocs,       \* the mprocs argument, then FilterBank._mprocs
    fpc,          \* where FilterBank.__init__ is
    cfgdone,      \* the configuration steps of __init__ that have completed
    buf           \* X_ after line 218, or what line 218 raised

fbVars == <<binsize, sample_rate, bandwidth, center_freqs, built, idx1, idx2, fidx,
            decimate_by, domain, mprocs, fpc, cfgdone, buf>>

\* what the dispatcher's methods and its workers change
dispVars == <<in_counter, out_counter, ins, out, wpc, snap, cpc, args, ret, kpc,
              epochs, kills, killed, ilock, itmp, ncalls, prev>>

vars == <<nprocs, dummy, axis_len, slices, start_slice, p, shm, bind, function,
          dispVars, fbVars>>

ctorVars == <<nprocs, dummy, axis_len, slices, start_slice, p, shm, bind,
              function, fbVars>>

Data == 1..NData
NoData == 0
None == <<>>
\* an element of the output buffer nobody has written (shared memory is zeroed)
Zero == <<>>
\* _fft_procs has not been called
NoBuf == <<"none", <<>> >>

\* ------------------------------------------------------- the slice loop
\* a slice loop that divides the whole axis by the worker count each time
SliceLen_whole(slice_remain, procs_remain) ==
    (axis_len + nprocs - 1) \div nprocs

\* int(np.ceil(slice_remain / procs_remain)), procs_remain >= 1
SliceLen(slice_remain, procs_remain) ==
    (slice_remain + procs_remain - 1) \div procs_remain

\* one iteration of `for p in range(self.nprocs)`
SliceLoop ==
    /\ p < nprocs
    /\ LET slice_remain == axis_len - start_slice
           procs_remain == nprocs - p
           slice_i == SliceLen(slice_remain, procs_remain)
       IN  /\ slices' = Append(slices, <<start_slice, start_slice + slice_i>>)
           /\ start_slice' = start_slice + slice_i
    /\ p' = p + 1
    /\ UNCHANGED <<nprocs, dummy, axis_len, shm, bind, function, dispVars, fbVars>>

\* the slices the loop leaves behind, as Init of a constructed dispatcher
RECURSIVE SlicesFrom(_, _, _, _)
SlicesFrom(L, N, q, start) ==
    IF q >= N THEN <<>>
    ELSE LET slice_i == SliceLen(L - start, N - q)
         IN  <<(<<start, start + slice_i>>)>> \o SlicesFrom(L, N, q + 1, start + slice_i)

\* worker processes exist only when nprocs > 1 (line 70)
Procs == IF nprocs > 1 /\ ~dummy THEN 0..(nprocs - 1) ELSE {}

\* a slice that takes in the index at its stop as well
SliceOf_wide(w) ==
    {i \in 0..(axis_len - 1) : slices[w + 1][1] <= i /\ i <= slices[w + 1][2]}

\* the indices of the partitioned axis inside worker w's slice
SliceOf(w) == {i \in 0..(axis_len - 1) : slices[w + 1][1] <= i /\ i < slices[w + 1][2]}

\* ------------------------------------------- the workers' views of the data
\* the axis argument FilterBank gives its dispatcher (filterbank.py line 133)
\* and the axes of out_shape (line 115), counted from 0
Axis == 2
OutAxes == <<"channel", "window", "band", "sample">>

\* a view of an array: all of it, or its part from start to stop along its
\* first axis (for out: along self.axis)
Whole == <<"all", 0, 0>>
Part(w) == <<"part", slices[w + 1][1], slices[w + 1][2]>>

\* views in which the STFT buffer is cut and the index arrays are whole
Binding_window(w) ==
    [in1 |-> Part(w), in2 |-> Whole, in3 |-> Whole, in4 |-> Whole,
     out_axis |-> OutAxes[Axis + 1], out |-> Part(w)]

\* parallel.py lines 134-142 in worker w: tmp1 is in1 whole; tmp2, tmp3 and
\* tmp4 are the rows self.slices[proc_i] of in2, in3 and in4; the worker
\* writes out at self.slices[proc_i] along self.axis
Binding(w) ==
    [in1 |-> Whole, in2 |-> Part(w), in3 |-> Part(w), in4 |-> Part(w),
     out_axis |-> OutAxes[Axis + 1], out |-> Part(w)]

\* --------------------------------------------------------- the projector
\* the domain argument's default (filterbank.py line 65), which is the value
\* of self.domain the worker processes carry from their start
Domain0 == "time"

\* element i (along the partitioned axis) of _fft_procs(in1, in2, in3, in4)
\* run on an object whose domain attribute is dom: line 226 returns X_,
\* line 230 its inverse transform
ProjectIn(dom, x, i) == IF dom = "time" THEN <<x, i>> ELSE <<x, i, dom>>

\* element i (along the partitioned axis) of func(in1, in2, in3, in4), for
\* the projector the dispatcher was constructed with
Project(x, i) == ProjectIn(Domain0, x, i)

\* func(*args): the whole output of a direct call
Direct(x) == [i \in 0..(axis_len - 1) |-> Project(x, i)]

\* self.function[self.f_name](*args) (lines 50 and 165): the call of
\* whatever function f the class's dictionary holds under the name
Call(f, dom, x) ==
    [i \in 0..(axis_len - 1) |->
        IF f = "own" THEN ProjectIn(dom, x, i) ELSE <<x, i, f>>]

ArgsOf(d) == <<d, d, d, d>>

\* ------------------------------- FilterBank._get_indices_for_frequency_shifts
\* The code computes in double precision and truncates with int(); the
\* operators below compute the same quotients exactly. For the
\* configurations drawn here (and for binsize 1024 at 1000 Hz) both give the
\* same integers. center_freqs is taken as the (nfreqs x 1) column for which
\* line 269 broadcasts one centre bin per band.

\* self._nfreqs (line 91)
nfreqs == Len(center_freqs)

\* the order of the steps of FilterBank.__init__ with the dispatcher built
\* straight after the bands
StepAfter_early(s) ==
    CASE s = "l89" -> "l108"
      [] s = "l98" -> "l102"
      [] s = "l102" -> "l104"
      [] s = "l104" -> "l108"
      [] s = "l108" -> "l131"

\* the order of the steps of FilterBank.__init__, each named by its first
\* line: bands (88-95), index arrays (98), prototype filter (101-102),
\* delay (104-105), worker count (108-109), init_multiprocess (111, 131)
StepAfter(s) ==
    CASE s = "l89" -> "l98"
      [] s = "l98" -> "l102"
      [] s = "l102" -> "l104"
      [] s = "l104" -> "l108"
      [] s = "l108" -> "l131"

\* self._factor = .6 (line 70), as the fraction FactorNum / FactorDen
FactorNum == 6
FactorDen == 10

\* int(x) of a non-negative quotient a / b
IntOf(a, b) == a \div b

\* int((self.bandwidth * self._factor) * 2 * self.interval_per_hz), with
\* interval_per_hz = binsize / sample_rate (line 92): lines 254 and 265
WindowLen == IntOf(bandwidth * FactorNum * 2 * binsize, FactorDen * sample_rate)

\* int(self.interval_per_hz * self.bandwidth * self._factor): lines 257, 269
HalfWindow == IntOf(binsize * bandwidth * FactorNum, sample_rate * FactorDen)

\* cf_ix_ (line 251): the bin of the centre frequency of band b, truncated
CfIx(b) == IntOf(center_freqs[b] * binsize, 2 * sample_rate)

\* l_bound (line 257), the same for every band
LBound == (binsize \div 2) - HalfWindow

\* row ix of self._fidx (lines 256-260): np.arange from l_bound, WindowLen long
FidxRow == [k \in 1..WindowLen |-> LBound + (k - 1)]

\* row b of index1 after line 269: np.arange(0, W) moved to the band's bin
Idx1Row(b) == [k \in 1..WindowLen |-> (k - 1) + (CfIx(b) - HalfWindow)]

\* row b of index2 (line 267): the band index, repeated
Idx2Row(b) == [k \in 1..WindowLen |-> b - 1]

GetIndices ==
    /\ fpc = "l98"
    /\ ~built
    /\ built' = TRUE
    /\ fpc' = StepAfter(fpc)
    /\ cfgdone' = cfgdone \cup {"indices"}
    /\ fidx' = [b \in 1..Len(center_freqs) |-> FidxRow]
    /\ idx1' = [b \in 1..Len(center_freqs) |-> Idx1Row(b)]
    /\ idx2' = [b \in 1..Len(center_freqs) |-> Idx2Row(b)]
    /\ UNCHANGED <<binsize, sample_rate, bandwidth, center_freqs, decimate_by,
                   domain, mprocs, buf>>
    /\ UNCHANGED <<nprocs, dummy, axis_len, slices, start_slice, p, shm, bind,
                   function, dispVars>>

\* no filter bank around the dispatcher
NoFilterBank ==
    /\ binsize = 0
    /\ sample_rate = 0
    /\ bandwidth = 0
    /\ center_freqs = <<>>
    /\ built = FALSE
    /\ idx1 = <<>>
    /\ idx2 = <<>>
    /\ fidx = <<>>
    /\ decimate_by = 1
    /\ domain = Domain0
    /\ mprocs = FALSE
    /\ fpc = "none"
    /\ cfgdone = {}
    /\ buf = NoBuf

\* the sequences of 1..n centre frequencies, each in 0..top
RECURSIVE SeqsUpTo(_, _)
SeqsUpTo(n, top) ==
    IF n = 0 THEN {<<>>}
    ELSE LET shorter == SeqsUpTo(n - 1, top)
         IN  shorter \cup {Append(q, c) : q \in {r \in shorter : Len(r) = n - 1}, c \in 0..top}

\* ------------------------------------------------------------------ Init
Idle ==
    /\ in_counter = 0
    /\ ins = ArgsOf(NoData)
    /\ cpc = "idle"
    /\ args = None
    /\ ret = None
    /\ kpc = "idle"
    /\ epochs = 0
    /\ kills = 0
    /\ killed = FALSE
    /\ ilock = "free"
    /\ itmp = 0
    /\ prev = None
    /\ function = "own"

\* before the slice loop: `self.slices = []; start_slice = 0`
PartitionInit ==
    /\ nprocs \in 2..MaxProcs
    /\ dummy = FALSE
    /\ axis_len \in 0..MaxAxis
    /\ slices = <<>>
    /\ start_slice = 0
    /\ p = 0
    /\ out_counter = <<>>
    /\ out = [i \in 0..(axis_len - 1) |-> Zero]
    /\ wpc = <<>>
    /\ snap = <<>>
    /\ ncalls = <<>>
    /\ bind = <<>>
    /\ shm = TRUE
    /\ Idle
    /\ NoFilterBank

\* no dispatcher has been built: init_multiprocess has not run
NoDispatcher ==
    /\ dummy = FALSE
    /\ axis_len = 0
    /\ slices = <<>>
    /\ start_slice = 0
    /\ p = 0
    /\ out_counter = <<>>
    /\ out = <<>>
    /\ wpc = <<>>
    /\ snap = <<>>
    /\ ncalls = <<>>
    /\ bind = <<>>
    /\ shm = FALSE
    /\ Idle

\* a FilterBank at line 98 of __init__: the frequency parameters are set
\* (lines 84-95), no index array exists, no dispatcher has been built
IndicesInit ==
    /\ binsize \in BinSizes
    /\ sample_rate \in SampleRates
    /\ bandwidth \in 1..MaxBandwidth
    /\ center_freqs \in (SeqsUpTo(MaxBands, sample_rate) \ {<<>>})
    /\ built = FALSE
    /\ idx1 = <<>>
    /\ idx2 = <<>>
    /\ fidx = <<>>
    /\ decimate_by = 1
    /\ domain = Domain0
    /\ mprocs = FALSE
    /\ fpc = "l98"
    /\ cfgdone = {"bands"}
    /\ buf = NoBuf
    /\ nprocs = 1
    /\ NoDispatcher

\* a FilterBank whose index arrays are to be built and used by a direct
\* call of the projector
ProjectInit ==
    /\ binsize \in BinSizes
    /\ sample_rate \in SampleRates
    /\ bandwidth \in 1..MaxBandwidth
    /\ center_freqs \in (SeqsUpTo(MaxBands, sample_rate) \ {<<>>})
    /\ built = FALSE
    /\ idx1 = <<>>
    /\ idx2 = <<>>
    /\ fidx = <<>>
    /\ decimate_by \in DecimateBys
    /\ domain = Domain0
    /\ mprocs = FALSE
    /\ fpc = "l98"
    /\ cfgdone = {"bands"}
    /\ buf = NoBuf
    /\ nprocs = 1
    /\ NoDispatcher

\* 1..MaxBands bands with their centres spread evenly below Nyquist
SpreadBands ==
    {[b \in 1..n |-> (b * sample_rate) \div (n + 1)] : n \in 1..MaxBands}

\* FilterBank.__init__ at line 88, with the arguments nprocs and mprocs
ConstructInit ==
    /\ binsize \in BinSizes
    /\ sample_rate \in SampleRates
    /\ bandwidth = 1
    /\ center_freqs \in SpreadBands
    /\ built = FALSE
    /\ idx1 = <<>>
    /\ idx2 = <<>>
    /\ fidx = <<>>
    /\ decimate_by = 1
    /\ domain = Domain0
    /\ mprocs \in BOOLEAN
    /\ fpc = "l89"
    /\ cfgdone = {}
    /\ buf = NoBuf
    /\ nprocs \in 1..MaxWorkers
    /\ NoDispatcher

\* a constructed Parallel (or ParallelDummy): buffers zeroed, counters 0,
\* every worker started and at the top of its loop
Constructed ==
    /\ axis_len = AxisLen
    /\ slices = IF nprocs > 1 THEN SlicesFrom(axis_len, nprocs, 0, 0) ELSE <<>>
    /\ start_slice = IF nprocs > 1 THEN axis_len ELSE 0
    /\ p = IF nprocs > 1 THEN nprocs ELSE 0
    /\ out_counter = [w \in Procs |-> 0]
    /\ out = [i \in 0..(axis_len - 1) |-> Zero]
    /\ wpc = [w \in Procs |-> "l144"]
    /\ snap = [w \in Procs |-> None]
    /\ ncalls = [w \in Procs |-> 0]
    /\ bind = [w \in Procs |-> Binding(w)]
    /\ shm = (Procs # {})
    /\ Idle
    /\ NoFilterBank

\* a Parallel in either mode, or the ParallelDummy that FilterBank builds
\* when multiprocessing is off
Init ==
    /\ nprocs \in WorkerCounts
    /\ dummy \in IF nprocs = 1 THEN BOOLEAN ELSE {FALSE}
    /\ Constructed

\* ------------------------------------------------------ Parallel.process
Alive(w) == wpc[w] \notin {"exit", "dead"}

\* Counter.value() of in_counter (lines 22-24) waits for the lock
CanRead == ilock = "free"

\* Counter.value(): the locked read of in_counter
Running == in_counter >= 0

\* a worker that does not wait for a submission at line 145
NothingNew_never(w) == FALSE

\* line 145 with the comparison the wrong way round
NothingNew_swapped(w) == in_counter >= out_counter[w]

\* line 145 with > for >=
NothingNew_strict(w) == out_counter[w] > in_counter

\* line 145, second conjunct: nothing new has been submitted to worker w
NothingNew(w) == out_counter[w] >= in_counter

WorkerFrame == <<ctorVars, in_counter, ins, cpc, args, ret, kpc, epochs, kills,
                 killed, ilock, itmp, prev>>

\* line 144: while in_counter.value() >= 0
W144(w) ==
    /\ wpc[w] = "l144"
    /\ CanRead
    /\ wpc' = [wpc EXCEPT ![w] = IF Running THEN "l145a" ELSE "exit"]
    /\ UNCHANGED <<WorkerFrame, out_counter, out, snap, ncalls>>

\* line 145, first conjunct
W145a(w) ==
    /\ wpc[w] = "l145a"
    /\ CanRead
    /\ wpc' = [wpc EXCEPT ![w] = IF Running THEN "l145b" ELSE "l148"]
    /\ UNCHANGED <<WorkerFrame, out_counter, out, snap, ncalls>>

\* line 145, second conjunct, and the sleep of line 146
W145b(w) ==
    /\ wpc[w] = "l145b"
    /\ CanRead
    /\ wpc' = [wpc EXCEPT ![w] = IF NothingNew(w) THEN "l145a" ELSE "l148"]
    /\ UNCHANGED <<WorkerFrame, out_counter, out, snap, ncalls>>

\* line 148: if in_counter.value() >= 0
W148(w) ==
    /\ wpc[w] = "l148"
    /\ CanRead
    /\ wpc' = [wpc EXCEPT ![w] = IF Running THEN "l149" ELSE "l144"]
    /\ UNCHANGED <<WorkerFrame, out_counter, out, snap, ncalls>>

\* line 149, the call: the projector reads the shared inputs
W149call(w) ==
    /\ wpc[w] = "l149"
    /\ snap' = [snap EXCEPT ![w] = ins]
    /\ ncalls' = [ncalls EXCEPT ![w] = @ + 1]
    /\ wpc' = [wpc EXCEPT ![w] = "calling"]
    /\ UNCHANGED <<WorkerFrame, out_counter, out>>

\* line 149, the assignment: the result goes into the worker's slice of out
W149store(w) ==
    /\ wpc[w] = "calling"
    /\ out' = [i \in 0..(axis_len - 1) |->
                  IF i \in SliceOf(w) THEN Project(snap[w], i) ELSE out[i]]
    /\ snap' = [snap EXCEPT ![w] = None]
    /\ wpc' = [wpc EXCEPT ![w] = "l150"]
    /\ UNCHANGED <<WorkerFrame, out_counter, ncalls>>

\* line 150: out_counter.increment()
W150(w) ==
    /\ wpc[w] = "l150"
    /\ out_counter' = [out_counter EXCEPT ![w] = @ + 1]
    /\ wpc' = [wpc EXCEPT ![w] = "l144"]
    /\ UNCHANGED <<WorkerFrame, out, snap, ncalls>>

\* the projector raises inside the worker (nothing in process() catches
\* it), or the process is killed from outside: the process ends with its
\* counter as it is
WorkerDies(w) ==
    /\ Alive(w)
    /\ wpc' = [wpc EXCEPT ![w] = "dead"]
    /\ snap' = [snap EXCEPT ![w] = None]
    /\ UNCHANGED <<WorkerFrame, out_counter, out, ncalls>>

WorkerStep(w) ==
    \/ W144(w) \/ W145a(w) \/ W145b(w) \/ W148(w)
    \/ W149call(w) \/ W149store(w) \/ W150(w)

\* ------------------------------------------------------- Parallel.result
CallerFrame == <<ctorVars, out_counter, out, wpc, snap, kpc, kills, killed, ncalls>>

\* a result() that does not wait at line 160
StillPending_none == FALSE

\* line 160 with np.all for np.any
StillPending_all == \A w \in Procs : out_counter[w] < in_counter

\* line 160 comparing with the epoch before
StillPending_off == \E w \in Procs : out_counter[w] < in_counter - 1

\* line 160: np.any(out_counter values < in_counter.value())
StillPending == \E w \in Procs : out_counter[w] < in_counter

\* a call result(*args): line 154 chooses the branch
ResultCall ==
    /\ cpc = "idle"
    /\ epochs < MaxEpochs
    /\ epochs' = epochs + 1
    /\ \E d \in Data :
          /\ args' = ArgsOf(d)
          /\ IF nprocs > 1 /\ ~dummy
             THEN /\ cpc' = "in1"
                  /\ ret' = None
             ELSE \* line 165 and ParallelDummy.result, line 50
                  /\ cpc' = "returned"
                  /\ ret' = Call(function, domain, ArgsOf(d))
    /\ UNCHANGED <<CallerFrame, in_counter, ins, ilock, itmp, prev>>

\* lines 155-158: self.in<k>[...] = args[k-1]
WriteIn(k) ==
    /\ cpc = <<"in1", "in2", "in3", "in4">>[k]
    /\ ins' = [ins EXCEPT ![k] = args[k]]
    /\ cpc' = <<"in2", "in3", "in4", "l159">>[k]
    /\ UNCHANGED <<CallerFrame, in_counter, args, ret, epochs, ilock, itmp, prev>>

\* line 159, self.in_counter.increment(): lines 19-20 take the lock and
\* read the value. kill() stores without the lock (line 116), so its store
\* can fall between this read and the write of IncWrite.
IncRead ==
    /\ cpc = "l159"
    /\ ilock = "free"
    /\ ilock' = "caller"
    /\ itmp' = in_counter
    /\ cpc' = "l159w"
    /\ UNCHANGED <<CallerFrame, in_counter, ins, args, ret, epochs, prev>>

\* line 20: the value read, plus one, is written and the lock released
IncWrite ==
    /\ cpc = "l159w"
    /\ in_counter' = itmp + 1
    /\ ilock' = "free"
    /\ itmp' = 0
    /\ cpc' = "l160"
    /\ UNCHANGED <<CallerFrame, ins, args, ret, epochs, prev>>

\* lines 160-162: sleep while a worker is behind, then return self.out.
\* The counters are read one after the other, in_counter last; out counters
\* only grow, so the loop ends exactly when it would with all of them read
\* at the moment in_counter is read, which is what this step does.
Poll ==
    /\ cpc = "l160"
    /\ IF StillPending
       THEN UNCHANGED <<cpc, ret>>
       ELSE /\ cpc' = "returned"
            /\ ret' = out
    /\ UNCHANGED <<CallerFrame, in_counter, ins, args, epochs, ilock, itmp, prev>>

\* the caller has used the returned array
Consume ==
    /\ cpc = "returned"
    /\ cpc' = "idle"
    /\ ret' = None
    /\ args' = None
    /\ UNCHANGED <<CallerFrame, in_counter, ins, epochs, ilock, itmp, prev>>

\* the caller keeps the arguments and a copy of the returned array
Keep ==
    /\ cpc = "returned"
    /\ prev = None
    /\ prev' = <<args, ret>>
    /\ cpc' = "idle"
    /\ ret' = None
    /\ args' = None
    /\ UNCHANGED <<CallerFrame, in_counter, ins, epochs, ilock, itmp>>

CallerStep ==
    (\E k \in 1..4 : WriteIn(k)) \/ IncRead \/ IncWrite \/ Poll \/ Consume

\* --------------------------------------------------------- Parallel.kill
KillFrame == <<ctorVars, out_counter, ins, out, wpc, snap, cpc, args, ret, epochs,
               ilock, itmp, ncalls, prev>>

\* line 117 without the joins
Joined_nowait == TRUE

\* line 117: every p.join() has returned
Joined == \A w \in Procs : ~Alive(w)

\* an except clause that catches nothing
Caught_none(exc) == FALSE

\* line 122: except (AttributeError, AssertionError)
Caught(exc) == exc \in {"AttributeError", "AssertionError"}

\* lines 115-116 in multi-worker mode, a store made without the counter's
\* lock, whoever holds it; with nprocs <= 1 no in_counter was
\* created (line 70), line 115 raises AttributeError and lines 122-124
\* decide whether kill() returns or raises
KillSet ==
    /\ kpc = "idle"
    /\ ~dummy
    /\ kills < MaxKills
    /\ IF nprocs > 1
       THEN /\ in_counter' = Sentinel
            /\ killed' = TRUE
            /\ kpc' = "l117"
            /\ UNCHANGED kills
       ELSE /\ kills' = IF Caught("AttributeError") THEN kills + 1 ELSE kills
            /\ kpc' = IF Caught("AttributeError") THEN "idle" ELSE "raised"
            /\ UNCHANGED <<in_counter, killed>>
    /\ UNCHANGED KillFrame

\* line 117: [p.join() for p in self.procs]
KillJoin ==
    /\ kpc = "l117"
    /\ Joined
    /\ kpc' = "idle"
    /\ kills' = kills + 1
    /\ UNCHANGED <<KillFrame, in_counter, killed>>

\* ParallelDummy.kill, lines 43-47: `del self` unbinds the local name only
DummyKill ==
    /\ dummy
    /\ kills < MaxKills
    /\ kills' = kills + 1
    /\ UNCHANGED <<KillFrame, in_counter, killed, kpc>>

\* ---------------------------------------------------- FilterBank.__init__
\* the steps of __init__ that depend on the configuration and can raise
ConfigSteps == {"bands", "indices", "filter", "delay"}

FbFrame == <<binsize, sample_rate, bandwidth, center_freqs, built, idx1, idx2,
             fidx, decimate_by, domain, buf>>

\* a step of __init__ that calls code which can raise on the configuration
\* (get_all_frequencies and the division of line 92, create_filter,
\* group_delay): it completes, or the exception leaves __init__
ConfigStep(at, name) ==
    /\ fpc = at
    /\ \/ /\ fpc' = StepAfter(fpc)
          /\ cfgdone' = cfgdone \cup {name}
       \/ /\ fpc' = "raised"
          /\ UNCHANGED cfgdone
    /\ UNCHANGED <<FbFrame, mprocs>>
    /\ UNCHANGED <<nprocs, dummy, axis_len, slices, start_slice, p, shm, bind,
                   function, dispVars>>

\* lines 88-95
FBands == ConfigStep("l89", "bands")

\* lines 101-102
FFilter == ConfigStep("l102", "filter")

\* lines 104-105
FDelay == ConfigStep("l104", "delay")

\* lines 108-109: self._mprocs = True if self.nprocs > 1 else mprocs
FMprocs ==
    /\ fpc = "l108"
    /\ mprocs' = IF nprocs > 1 THEN TRUE ELSE mprocs
    /\ fpc' = StepAfter(fpc)
    /\ UNCHANGED <<FbFrame, cfgdone>>
    /\ UNCHANGED <<nprocs, dummy, axis_len, slices, start_slice, p, shm, bind,
                   function, dispVars>>

\* lines 111-115 and 131-150: a Parallel (its lines 57-70) or a
\* ParallelDummy is built for out_shape (nch, nwin, nfreqs, binsize_), the
\* Parallel with axis=2
InitMultiprocess ==
    /\ fpc = "l131"
    /\ axis_len' = nfreqs
    /\ function' = "own"
    /\ IF mprocs
       THEN /\ fpc' = IF nprocs > 1 THEN "l73" ELSE "done"
            /\ UNCHANGED dummy
       ELSE /\ fpc' = "done"
            /\ dummy' = TRUE
    /\ UNCHANGED <<FbFrame, mprocs, cfgdone>>
    /\ UNCHANGED <<nprocs, slices, start_slice, p, shm, bind, dispVars>>

\* parallel.py lines 73-83: the five shared arrays, zeroed
Allocate ==
    /\ fpc = "l73"
    /\ shm' = TRUE
    /\ ins' = ArgsOf(NoData)
    /\ out' = [i \in 0..(axis_len - 1) |-> Zero]
    /\ fpc' = "l86"
    /\ UNCHANGED <<FbFrame, mprocs, cfgdone>>
    /\ UNCHANGED <<nprocs, dummy, axis_len, slices, start_slice, p, bind, function,
                   in_counter, out_counter, wpc, snap, cpc, args, ret, kpc,
                   epochs, kills, killed, ilock, itmp, ncalls, prev>>

\* parallel.py lines 86-93, inside the constructor
SliceStep ==
    /\ fpc = "l86"
    /\ SliceLoop

\* parallel.py lines 96-97, after the last iteration of the slice loop
Counters ==
    /\ fpc = "l86"
    /\ p = nprocs
    /\ in_counter' = 0
    /\ out_counter' = [w \in Procs |-> 0]
    /\ ncalls' = [w \in Procs |-> 0]
    /\ fpc' = "l105"
    /\ UNCHANGED <<FbFrame, mprocs, cfgdone>>
    /\ UNCHANGED <<nprocs, dummy, axis_len, slices, start_slice, p, shm, bind,
                   function, ins, out, wpc, snap, cpc, args, ret, kpc, epochs,
                   kills, killed, ilock, itmp, prev>>

\* the worker processes started so far
Started == DOMAIN wpc

\* parallel.py lines 105-107, one p.start(): the process makes its views
\* (lines 128-142) and reaches its loop
StartWorker ==
    /\ fpc = "l105"
    /\ LET n == Cardinality(Started)
       IN  /\ n < nprocs
           /\ wpc' = [w \in 0..n |-> IF w < n THEN wpc[w] ELSE "l144"]
           /\ snap' = [w \in 0..n |-> IF w < n THEN snap[w] ELSE None]
           /\ bind' = [w \in 0..n |-> IF w < n THEN bind[w] ELSE Binding(w)]
           /\ fpc' = IF n + 1 = nprocs THEN "done" ELSE fpc
    /\ UNCHANGED <<FbFrame, mprocs, cfgdone>>
    /\ UNCHANGED <<nprocs, dummy, axis_len, slices, start_slice, p, shm, function,
                   in_counter, out_counter, ins, out, cpc, args, ret, kpc,
                   epochs, kills, killed, ilock, itmp, ncalls, prev>>

\* ----------------------------------- FilterBank._fft_procs, lines 216-218
\* self._binsize_ (line 95)
BinSize_ == binsize \div decimate_by

\* the length of the last axis of X_ (line 217)
BufLen == BinSize_ \div 2

\* the length of the last axis of X, the one-sided spectrum (line 111)
NBins == (binsize \div 2) + 1

\* numpy's reading of index i on an axis of length n: an index from -n to
\* -1 counts from the end, one outside [-n, n) raises IndexError
InBounds(i, n) == -n <= i /\ i < n
Wrap(i, n) == IF i < 0 THEN i + n ELSE i

AllInBounds(a, n) ==
    \A b \in 1..Len(a) : \A k \in 1..Len(a[b]) : InBounds(a[b][k], n)

\* element (b, k) of X[:,:,idx1] * filts[fidx] for one channel and window:
\* the product of an STFT bin and a filter coefficient, named by the two
\* positions it is taken from
Gathered(b, k) == <<Wrap(idx1[b][k], NBins), Wrap(fidx[b][k], binsize)>>

\* the elements (b, k) line 218 assigns to X_[t, pos]
Hits(t, pos) ==
    {h \in (1..nfreqs) \X (1..WindowLen) :
        /\ Wrap(idx2[h[1]][h[2]], nfreqs) = t
        /\ Wrap(idx1[h[1]][h[2]], BufLen) = pos}

\* of the elements assigned to one place the last one stays
LastOf(hits) ==
    CHOOSE h \in hits :
        \A g \in hits : g[1] < h[1] \/ (g[1] = h[1] /\ g[2] <= h[2])

\* X_ after line 218 for one channel and window: a row per band, zero
\* where nothing was assigned
Scattered ==
    [t \in 1..nfreqs |->
        [pos \in 1..BufLen |->
            IF Hits(t - 1, pos - 1) = {} THEN Zero
            ELSE LET h == LastOf(Hits(t - 1, pos - 1)) IN Gathered(h[1], h[2])]]

\* lines 216-218 of a direct call with the index arrays of the object
FftProcs ==
    /\ built
    /\ buf = NoBuf
    /\ buf' = IF /\ AllInBounds(idx1, NBins) /\ AllInBounds(fidx, binsize)
                 /\ AllInBounds(idx2, nfreqs) /\ AllInBounds(idx1, BufLen)
              THEN <<"X_", Scattered>>
              ELSE <<"IndexError", <<>> >>
    /\ UNCHANGED <<binsize, sample_rate, bandwidth, center_freqs, built, idx1,
                   idx2, fidx, decimate_by, domain, mprocs, fpc, cfgdone>>
    /\ UNCHANGED <<nprocs, dummy, axis_len, slices, start_slice, p, shm, bind,
                   function, dispVars>>

\* ------------------------------------------- the class's function dictionary
\* lines 34-35 or 59-60 run in the constructor of another object of the
\* dispatcher's class, for a function with the same __name__ (the bound
\* method _fft_procs of a second FilterBank)
OtherConstructed ==
    /\ cpc = "idle"
    /\ function = "own"
    /\ function' = "other"
    /\ UNCHANGED <<nprocs, dummy, axis_len, slices, start_slice, p, shm, bind,
                   dispVars, fbVars>>

\* the owner assigns to the domain attribute of the FilterBank (it is a
\* plain attribute, set at line 75); the worker processes keep the object
\* they were started with
SetDomain ==
    /\ cpc = "idle"
    /\ domain' \in {"time", "freq"} \ {domain}
    /\ UNCHANGED <<binsize, sample_rate, bandwidth, center_freqs, built, idx1,
                   idx2, fidx, decimate_by, mprocs, fpc, cfgdone, buf>>
    /\ UNCHANGED <<nprocs, dummy, axis_len, slices, start_slice, p, shm, bind,
                   function, dispVars>>

\* --------------------------------------------------------- specifications
Next ==
    \/ \E w \in Procs : WorkerStep(w)
    \/ \E w \in Procs : WorkerDies(w)
    \/ ResultCall
    \/ CallerStep
    \/ KillSet
    \/ KillJoin
    \/ DummyKill

Spec == Init /\ [][Next]_vars

\* every worker process that can take a step of its loop takes one, and so
\* do the thread inside result() and the thread inside kill()
Fairness ==
    /\ \A w \in 0..(MaxWorkers - 1) : WF_vars(w \in Procs /\ WorkerStep(w))
    /\ WF_vars(CallerStep)
    /\ WF_vars(KillJoin)

LiveSpec == Spec /\ Fairness

ServeInit ==
    /\ nprocs \in 2..MaxWorkers
    /\ dummy = FALSE
    /\ Constructed

ServeNext ==
    \/ \E w \in Procs : WorkerStep(w)
    \/ ResultCall
    \/ CallerStep

ServeSpec == ServeInit /\ [][ServeNext]_vars /\ Fairness

\* the construction of a FilterBank, then its use: result() is called
\* once __init__ has returned
ConstructNext ==
    \/ FBands
    \/ GetIndices
    \/ FFilter
    \/ FDelay
    \/ FMprocs
    \/ InitMultiprocess
    \/ Allocate
    \/ SliceStep
    \/ Counters
    \/ StartWorker
    \/ \E w \in Started : WorkerStep(w)
    \/ (fpc = "done" /\ ResultCall)
    \/ CallerStep

SpecConstruct == ConstructInit /\ [][ConstructNext]_vars

ProjectNext == GetIndices \/ FftProcs

SpecProject == ProjectInit /\ [][ProjectNext]_vars

\* a dispatcher in use while another one of its class is constructed and
\* while its owner assigns to the domain attribute
RegistryNext ==
    \/ \E w \in Procs : WorkerStep(w)
    \/ ResultCall
    \/ CallerStep
    \/ Keep
    \/ OtherConstructed
    \/ SetDomain

SpecRegistry == Init /\ [][RegistryNext]_vars

PartitionNext == SliceLoop

SpecPartition == PartitionInit /\ [][PartitionNext]_vars

IndicesNext == GetIndices

SpecIndices == IndicesInit /\ [][IndicesNext]_vars

\* ------------------------------------------------------------ properties
MultiWorker == Procs # {}

\* worker w is inside line 149 or between line 149 and line 150
Computing(w) == wpc[w] \in {"l149", "calling", "l150"}

\* result() is between its call and its return, in multi-worker mode
Pending ==
    MultiWorker /\ cpc \in {"in1", "in2", "in3", "in4", "l159", "l159w", "l160"}

SomeDead == \E w \in Procs : wpc[w] = "dead"

\* C1: no tearing. With no teardown, whenever result() has returned in
\* multi-worker mode every worker has incremented its counter up to the
\* input counter and none is computing on or writing to the output buffer.
C1_NoTearing ==
    (MultiWorker /\ cpc = "returned" /\ ~killed) =>
        \A w \in Procs : out_counter[w] >= in_counter /\ ~Computing(w)

C1_Witness ==
    /\ MultiWorker /\ cpc = "returned" /\ ~killed /\ epochs = 2
    /\ \A w \in Procs : out_counter[w] = 2

\* C2: with no teardown, what result() returns for the i-th input equals
\* the direct call of the projector on that input alone, in multi-worker
\* mode as in single-worker mode: every element of the output is the
\* projector applied to the inputs of this call.
C2_MatchesDirectCall ==
    (cpc = "returned" /\ ~killed) => ret = Direct(args)

C2_Witness ==
    /\ MultiWorker /\ cpc = "returned" /\ ~killed /\ epochs = 2
    /\ args = ArgsOf(2) /\ ret = Direct(ArgsOf(2))

\* C3: in multi-worker mode, with every worker alive and fairly scheduled
\* and no teardown, every call of result() eventually returns.
C3_ResultReturns ==
    [](Pending => <>(cpc = "returned"))

C3_Witness ==
    /\ MultiWorker /\ cpc = "returned" /\ ~killed /\ ~SomeDead /\ epochs = 2

\* C4 as claimed: every worker counter never decreases and never exceeds
\* the input counter, through any sequence of result() and kill() calls.
C4_Claim ==
    /\ [][\A w \in Procs : out_counter'[w] >= out_counter[w]]_vars
    /\ [](\A w \in Procs : out_counter[w] <= in_counter)

\* C4 as amended: every worker counter never decreases, and it never
\* exceeds the input counter as long as kill() has not stored the sentinel.
C4_CountersBeforeKill ==
    /\ [][\A w \in Procs : out_counter'[w] >= out_counter[w]]_vars
    /\ [](~killed => \A w \in Procs : out_counter[w] <= in_counter)

C4_Witness ==
    /\ MultiWorker /\ ~killed /\ in_counter = 2
    /\ \E w \in Procs : out_counter[w] = 2
    /\ \E w \in Procs : out_counter[w] = 1

\* C5: once kill() has stored the sentinel, a result() call that returns
\* returns the projector's output for its own input, never what the
\* workers left in the output buffer for an earlier submission.
C5_Claim ==
    (MultiWorker /\ cpc = "returned" /\ killed) => ret = Direct(args)

\* C6: no kill() call raises, after any kill() has returned no worker
\* process is alive, and a kill() call after the first changes nothing but
\* the sentinel it stores again: the worker counters, the buffers, the
\* workers and the submitting thread stay as they are.
KillStepTaken == kpc' # kpc \/ kills' # kills

C6_KillIdempotent ==
    /\ [](kills >= 1 => \A w \in Procs : ~Alive(w))
    /\ [][(kills >= 1 /\ KillStepTaken) =>
            /\ UNCHANGED <<out_counter, ins, out, wpc, cpc, args, ret>>
            /\ in_counter' \in {in_counter, Sentinel}
            /\ (in_counter = Sentinel => in_counter' = Sentinel)]_vars
    /\ [](kpc # "raised")

C6_Witness ==
    /\ MultiWorker /\ kills = 2 /\ in_counter = Sentinel
    /\ \A w \in Procs : wpc[w] = "exit"

\* C7: after kill() has stored the sentinel every worker eventually leaves
\* its loop for good, and none starts another projector call.
C7_Claim ==
    /\ [][killed => \A w \in Procs : (wpc'[w] = "calling" => wpc[w] = "calling")]_vars
    /\ killed ~> (\A w \in Procs : ~Alive(w))

\* C8: with no teardown, a result() call that is polling while a worker
\* has died with the epoch unfinished does not wait forever: it ends.
C8_Claim ==
    (/\ cpc = "l160" /\ ~killed
     /\ \E w \in Procs : wpc[w] = "dead" /\ out_counter[w] < in_counter)
        ~> (cpc # "l160" \/ killed)

\* the loop of lines 88-93 has run to its end
LoopDone == p = nprocs /\ Len(slices) = nprocs

SliceStart(q) == slices[q][1]
SliceStop(q) == slices[q][2]
SliceSize(q) == SliceStop(q) - SliceStart(q)

\* C9: the slices the loop computes are contiguous from index 0, pairwise
\* non-overlapping, cover [0, axis_len) exactly once, and any two of their
\* lengths differ by at most 1, also when axis_len < nprocs.
C9_Partition ==
    (nprocs > 1 /\ LoopDone) =>
        /\ SliceStart(1) = 0
        /\ SliceStop(nprocs) = axis_len
        /\ \A q \in 1..nprocs : SliceStart(q) <= SliceStop(q)
        /\ \A q \in 1..(nprocs - 1) : SliceStop(q) = SliceStart(q + 1)
        /\ \A i \in 0..(axis_len - 1) :
              Cardinality({q \in 1..nprocs :
                              SliceStart(q) <= i /\ i < SliceStop(q)}) = 1
        /\ \A q, r \in 1..nprocs : SliceSize(q) - SliceSize(r) <= 1

C9_Witness ==
    /\ LoopDone /\ nprocs = 4 /\ axis_len = 6
    /\ slices = <<(<<0, 2>>), (<<2, 4>>), (<<4, 5>>), (<<5, 6>>)>>

C9_WitnessShort ==
    /\ LoopDone /\ nprocs = 3 /\ axis_len = 1 /\ SliceSize(3) = 0

\* bandwidth > 0 and every band [cf - bw/2, cf + bw/2] inside [0, Nyquist];
\* centre frequencies are in units of 1/2 Hz
ValidBands ==
    /\ bandwidth > 0
    /\ \A b \in 1..nfreqs :
          /\ center_freqs[b] - bandwidth >= 0
          /\ center_freqs[b] + bandwidth <= sample_rate

ShapeIs(a, rows, cols) ==
    /\ Len(a) = rows
    /\ \A b \in 1..rows : Len(a[b]) = cols

ValuesIn(a, lo, hi) ==
    \A b \in 1..Len(a) : \A k \in 1..Len(a[b]) : lo <= a[b][k] /\ a[b][k] < hi

\* C10: for every valid band configuration the three index arrays have
\* shape (nfreqs, W), and idx1 lies in [0, binsize/2), idx2 in [0, nfreqs)
\* and fidx in [0, binsize), also for bands at or near DC.
C10_Claim ==
    (built /\ ValidBands) =>
        /\ ShapeIs(idx1, nfreqs, WindowLen)
        /\ ShapeIs(idx2, nfreqs, WindowLen)
        /\ ShapeIs(fidx, nfreqs, WindowLen)
        /\ ValuesIn(idx1, 0, binsize \div 2)
        /\ ValuesIn(idx2, 0, nfreqs)
        /\ ValuesIn(fidx, 0, binsize)

\* C11: the index construction completes only with valid arrays: whenever
\* _get_indices_for_frequency_shifts has returned instead of raising, the
\* window length is positive and every value of idx1 and of fidx is inside
\* its range, so no index is negative and no array is empty.
C11_Claim ==
    built =>
        /\ WindowLen > 0
        /\ ValuesIn(idx1, 0, binsize \div 2)
        /\ ValuesIn(fidx, 0, binsize)

\* C12: in FilterBank.__init__ the shared memory is allocated and a worker
\* process is started only after the bands, the index arrays, the prototype
\* filter and the delay have all been computed; a construction that raised
\* in one of those steps has allocated nothing and started no worker.
C12_ConfigBeforeWorkers ==
    /\ (shm \/ Started # {}) => cfgdone = ConfigSteps
    /\ fpc = "raised" => (~shm /\ Started = {})

C12_Witness ==
    /\ fpc = "done" /\ shm /\ cfgdone = ConfigSteps
    /\ nprocs = 3 /\ Started = 0..2
    /\ \A w \in Started : Alive(w)

\* the workers whose slice holds index i of the partitioned axis
Owners(i) == {w \in Procs : slices[w + 1][1] <= i /\ i < slices[w + 1][2]}

\* C13: the input buffers change only in a step of result(); the input
\* counter changes only in the locked increment of result() or in the store
\* of kill(); an element of the output changes only in the store of a
\* worker whose slice holds it; a worker counter changes only in that
\* worker's increment; and every element of the output is in exactly one
\* worker's slice.
C13_WriteOwnership ==
    /\ [][ins' # ins => (cpc \in {"in1", "in2", "in3", "in4"} /\ cpc' # cpc)]_vars
    /\ [][in_counter' # in_counter =>
            \/ (cpc = "l159w" /\ cpc' = "l160" /\ ilock = "caller")
            \/ (kpc = "idle" /\ kpc' = "l117")]_vars
    /\ [][\A i \in 0..(axis_len - 1) :
            out'[i] # out[i] =>
                \E w \in Owners(i) : wpc[w] = "calling" /\ wpc'[w] = "l150"]_vars
    /\ [][\A w \in Procs :
            out_counter'[w] # out_counter[w] =>
                wpc[w] = "l150" /\ wpc'[w] = "l144"]_vars
    /\ [](MultiWorker => \A i \in 0..(axis_len - 1) : Cardinality(Owners(i)) = 1)

C13_Witness ==
    /\ MultiWorker /\ cpc = "l160" /\ in_counter = 1
    /\ out_counter[0] = 1 /\ out[0] = Project(ArgsOf(1), 0)
    /\ out_counter[1] = 0 /\ out[axis_len - 1] = Zero

\* worker w is in the polling loop of lines 144-146
Polling(w) == wpc[w] \in {"l144", "l145a", "l145b"}

\* result() is at lines 155-158, with an input buffer still to overwrite
Writing == cpc \in {"in1", "in2", "in3", "in4"}

\* C14: with one caller and no teardown, from the moment result() starts to
\* overwrite in1..in4 until it has written all four, every worker is in its
\* polling loop with its counter equal to the input counter: none is in a
\* projector call or about to make one.
C14_NoInputRace ==
    (MultiWorker /\ Writing) =>
        \A w \in Procs : Polling(w) /\ out_counter[w] = in_counter

C14_Witness ==
    /\ MultiWorker /\ cpc = "in3" /\ epochs = 2 /\ in_counter = 1
    /\ ins = <<2, 2, 1, 1>>
    /\ \A w \in Procs : ncalls[w] = 1 /\ wpc[w] = "l145b"

\* C15: with one caller and no teardown every worker counter is the input
\* counter or one less; a worker has started at most as many projector
\* calls as epochs have been submitted and at least as many as it has
\* counted; and when result() returns every worker has counted, and has
\* called the projector for, exactly the epochs submitted so far: once for
\* each epoch, never zero times and never twice.
C15_ExactlyOnce ==
    MultiWorker =>
        /\ \A w \in Procs :
              /\ in_counter - 1 <= out_counter[w]
              /\ out_counter[w] <= in_counter
              /\ out_counter[w] <= ncalls[w]
              /\ ncalls[w] <= in_counter
        /\ cpc = "returned" =>
              \A w \in Procs : out_counter[w] = in_counter /\ ncalls[w] = in_counter

C15_Witness ==
    /\ MultiWorker /\ cpc = "returned" /\ in_counter = 2
    /\ \A w \in Procs : ncalls[w] = 2 /\ out_counter[w] = 2

\* C16: whatever other dispatchers are constructed afterwards, a result()
\* call of this dispatcher returns the output of the projector it was
\* constructed with, in single-worker mode as in multi-worker mode (stated
\* for the calls made while the domain attribute is as it was constructed).
C16_Claim ==
    (cpc = "returned" /\ domain = Domain0) => ret = Direct(args)

C18_Claim ==
    (buf[1] = "X_" /\ ValidBands /\ ValuesIn(idx1, 0, BufLen)) =>
        /\ WindowLen <= BufLen
        /\ \A b \in 1..nfreqs : \A k \in 1..WindowLen :
              buf[2][idx2[b][k] + 1][k] = <<idx1[b][k], fidx[b][k]>>
        /\ \A t \in 1..nfreqs : \A pos \in (WindowLen + 1)..BufLen :
              buf[2][t][pos] = Zero

\* C19: the projector's result depends on its arguments only: a call with
\* the arguments of an earlier call returns what that call returned,
\* whatever has been assigned to the FilterBank's attributes in between,
\* and what the worker processes return is what a call in the caller's
\* process returns for the same arguments (stated for a dispatcher whose
\* entry in the function dictionary is its own projector).
C19_Claim ==
    (cpc = "returned" /\ function = "own") =>
        /\ (prev # None /\ prev[1] = args) => ret = prev[2]
        /\ ret = Call("own", domain, args)

=============================================================================
